---- MODULE Spec2Model ----
(***************************************************************************)
(* Model of Spec-Bench/upload_results.py: the publish pipeline that        *)
(* uploads benchmark result files to a LakeFS branch, commits them, and    *)
(* logs derived metrics to MLflow.                                         *)
(*                                                                         *)
(* Strings are modelled as sequences of tokens (a token is one character   *)
(* or one fixed piece of text), so that replace / startswith / f-string    *)
(* concatenation are computed and not assumed.                             *)
(***************************************************************************)
EXTENDS Integers, Sequences, FiniteSets, TLC

\* ------------------------------------------------------------------------
\* Bounds of the model
\* ------------------------------------------------------------------------
\* largest number of *.jsonl files that glob.glob returns
MaxFiles == 3

\* ------------------------------------------------------------------------
\* Input domains
\* ------------------------------------------------------------------------
\* stems of the *.jsonl files a results directory may hold, in the order
\* in which glob.glob lists them
DirListing == << <<"a">>, <<"a", "-", "b">>, <<"a", "_", "b">>, <<"b">> >>

FileStems == { DirListing[k] : k \in 1..Len(DirListing) }

\* values of --model-name; <<>> stands for "not given" (None is falsy, and so
\* is the empty string: both take the else branch of `if model_name`)
ModelNames == { <<>>, <<"m">>, <<"-", "-", "b", "/", "n">> }

\* characters kept by the regular expression [^a-zA-Z0-9_-] of
\* sanitize_branch_name; upper case letters would be listed likewise
SafeChars ==
    { "a", "b", "c", "d", "e", "f", "g", "h", "i", "j", "k", "l", "m", "n",
      "o", "p", "q", "r", "s", "t", "u", "v", "w", "x", "y", "z", "0", "1",
      "2", "3", "4", "5", "6", "7", "8", "9", "_", "-" }

\* lakefs.branch_prefix of the configuration
branch_prefix == <<"exp">>

\* the value of datetime.now() of this invocation, formatted by strftime
Stamp(fmt) == IF fmt = "%Y%m%d" THEN <<"D1">> ELSE <<"D1", "_", "T1">>

\* ------------------------------------------------------------------------
\* Sequence helpers
\* ------------------------------------------------------------------------
Range(s) == { s[k] : k \in 1..Len(s) }

SeqsUpTo(S, n) == UNION { [1..k -> S] : k \in 0..n }

\* str.replace(old, new) for a one-token old
ReplaceTok(s, old, new) == [k \in 1..Len(s) |-> IF s[k] = old THEN new ELSE s[k]]

\* str.replace(old, '') for a one-token old
RemoveTok(s, old) == SelectSeq(s, LAMBDA c : c # old)

\* os.path.basename(local_file) of a result file with the given stem
Filename(stem) == stem \o <<".jsonl">>

\* line 539: filename.replace('.jsonl', '').replace('-', '_')
benchmark_name(filename) == ReplaceTok(RemoveTok(filename, ".jsonl"), "-", "_")

sanitize_branch_name_keeps_dash(name) ==
    [k \in 1..Len(name) |-> IF name[k] \in SafeChars THEN name[k] ELSE "_"]

\* lines 353-359
sanitize_branch_name(name) ==
    LET safe_name == [k \in 1..Len(name) |->
                         IF name[k] \in SafeChars THEN name[k] ELSE "_"]
    IN IF Len(safe_name) > 0 /\ safe_name[1] = "-"
       THEN <<"m", "o", "d", "e", "l", "_">> \o Tail(safe_name)
       ELSE safe_name

\* line 532 / 444: f'results/{timestamp}/{filename}'
RemotePath(timestamp, filename) == <<"results/">> \o timestamp \o <<"/">> \o filename

\* line 547
MetadataPath(timestamp) == RemotePath(timestamp, <<"experiment_metadata.json">>)

\* line 507: f'{uploader.branch_prefix}_{timestamp}'
BatchBranch == branch_prefix \o <<"_">> \o Stamp("%Y%m%d_%H%M%S")

\* lines 433-437
SingleBranch(model_name) ==
    IF model_name # <<>>
    THEN branch_prefix \o <<"_">> \o sanitize_branch_name(model_name)
                       \o <<"_">> \o Stamp("%Y%m%d")
    ELSE branch_prefix \o <<"_", "single", "_">> \o Stamp("%Y%m%d")

\* ------------------------------------------------------------------------
\* Result files and the metrics aggregator (MLflowLogger, lines 253-342)
\* ------------------------------------------------------------------------
\* largest number of lines of a result file
MaxLines == 3

ArrayKeys == { "wall_time", "decoding_steps", "new_tokens", "accept_lengths" }

\* one entry of a record's "choices"; keys is the set of keys the JSON
\* object has, the arrays of absent keys are <<>> and never read
Choice(keys, wt, ds, nt, al) ==
    [keys |-> keys, wall_time |-> wt, decoding_steps |-> ds,
     new_tokens |-> nt, accept_lengths |-> al]

EmptyChoice == Choice({}, <<>>, <<>>, <<>>, <<>>)

\* a line of a result file:
\*   kind "blank"   only white space (line.strip() is falsy)
\*   kind "bad"     not JSON: json.loads raises
\*   kind "scalar"  JSON, but not an object: result.get raises
\*   kind "json"    a JSON object, with or without the key "choices"
Line(kind, has_choices, choices) ==
    [kind |-> kind, has_choices |-> has_choices, choices |-> choices]

BlankLine == Line("blank", FALSE, <<>>)
BadLine == Line("bad", FALSE, <<>>)
ScalarLine == Line("scalar", FALSE, <<>>)
Record(choices) == Line("json", TRUE, choices)
RecordNoChoices == Line("json", FALSE, <<>>)

FullChoice == Choice(ArrayKeys, <<2>>, <<3>>, <<4>>, <<0, 1>>)
ZeroChoice == Choice(ArrayKeys, <<0>>, <<1>>, <<2>>, <<0, 0>>)
SparseChoice == Choice({"wall_time", "accept_lengths"}, <<1, 1>>, <<>>, <<>>, <<>>)
TokensOnlyChoice == Choice({"new_tokens"}, <<>>, <<>>, <<1>>, <<>>)

\* the lines the model draws result files from
SampleLines ==
    { BlankLine, BadLine, ScalarLine, RecordNoChoices, Record(<<>>),
      Record(<<FullChoice>>), Record(<<ZeroChoice, FullChoice>>),
      Record(<<SparseChoice>>), Record(<<TokensOnlyChoice>>) }

\* rationals <<numerator, denominator>> stand for Python's floats
Rat(n, d) == <<n, d>>
RatAdd(x, y) == <<x[1] * y[2] + y[1] * x[2], x[2] * y[2]>>
RatLess(x, y) == x[1] * y[2] < y[1] * x[2]
RatEq(x, y) == x[1] * y[2] = y[1] * x[2]

RECURSIVE Sum(_)
Sum(s) == IF s = <<>> THEN 0 ELSE Head(s) + Sum(Tail(s))

RECURSIVE RatSum(_)
RatSum(s) == IF s = <<>> THEN Rat(0, 1) ELSE RatAdd(Head(s), RatSum(Tail(s)))

Max(s) == CHOOSE x \in Range(s) : \A y \in Range(s) : y <= x
Min(s) == CHOOSE x \in Range(s) : \A y \in Range(s) : x <= y
RatMax(s) == CHOOSE x \in Range(s) : \A y \in Range(s) : ~RatLess(x, y)

\* f'{benchmark_name}_{metric}'
MetricKey(name, metric) == name \o <<"_", metric>>

NoMetrics == [k \in {} |-> Rat(0, 1)]

ArrayOf(choice, key) ==
    CASE key = "wall_time" -> choice.wall_time
      [] key = "decoding_steps" -> choice.decoding_steps
      [] key = "new_tokens" -> choice.new_tokens
      [] key = "accept_lengths" -> choice.accept_lengths

RECURSIVE Extend_last_choice(_, _)
Extend_last_choice(results, key) ==
    IF results = <<>> THEN <<>>
    ELSE LET result == Head(results)
             choices == IF result.has_choices THEN result.choices
                        ELSE <<EmptyChoice>>
             part == IF choices # <<>> /\ key \in choices[Len(choices)].keys
                     THEN ArrayOf(choices[Len(choices)], key) ELSE <<>>
         IN part \o Extend_last_choice(Tail(results), key)

\* lines 288-307 for one array: choices = result.get('choices', [{}]); the
\* first choice is consulted, and only when the list is not empty
RECURSIVE Extend(_, _)
Extend(results, key) ==
    IF results = <<>> THEN <<>>
    ELSE LET result == Head(results)
             choices == IF result.has_choices THEN result.choices
                        ELSE <<EmptyChoice>>
             part == IF choices # <<>> /\ key \in choices[1].keys
                     THEN ArrayOf(choices[1], key) ELSE <<>>
         IN part \o Extend(Tail(results), key)

\* lines 310-314
WallTimeStats(name, wall_times) ==
    IF wall_times # <<>>
    THEN (MetricKey(name, "avg_wall_time") :> Rat(Sum(wall_times), Len(wall_times)))
         @@ (MetricKey(name, "total_wall_time") :> Rat(Sum(wall_times), 1))
         @@ (MetricKey(name, "max_wall_time") :> Rat(Max(wall_times), 1))
         @@ (MetricKey(name, "min_wall_time") :> Rat(Min(wall_times), 1))
    ELSE NoMetrics

\* lines 316-318
DecodingStats(name, decoding_steps) ==
    IF decoding_steps # <<>>
    THEN (MetricKey(name, "avg_decoding_steps")
              :> Rat(Sum(decoding_steps), Len(decoding_steps)))
         @@ (MetricKey(name, "total_decoding_steps") :> Rat(Sum(decoding_steps), 1))
    ELSE NoMetrics

TokensPerSec_zero_time_counts(new_tokens, wall_times) ==
    [k \in 1..Len(new_tokens) |->
        IF wall_times[k] > 0 THEN Rat(new_tokens[k], wall_times[k])
        ELSE Rat(new_tokens[k], 1)]

\* line 326: zip stops at the shorter list, the lengths are equal here
TokensPerSec(new_tokens, wall_times) ==
    [k \in 1..Len(new_tokens) |->
        IF wall_times[k] > 0 THEN Rat(new_tokens[k], wall_times[k]) ELSE Rat(0, 1)]

\* lines 320-328
TokenStats(name, new_tokens, wall_times) ==
    IF new_tokens # <<>>
    THEN (MetricKey(name, "avg_new_tokens") :> Rat(Sum(new_tokens), Len(new_tokens)))
         @@ (MetricKey(name, "total_new_tokens") :> Rat(Sum(new_tokens), 1))
         @@ (IF wall_times # <<>> /\ Len(wall_times) = Len(new_tokens)
             THEN LET tokens_per_sec == TokensPerSec(new_tokens, wall_times)
                      total == RatSum(tokens_per_sec)
                  IN (MetricKey(name, "avg_tokens_per_sec")
                          :> Rat(total[1], total[2] * Len(tokens_per_sec)))
                     @@ (MetricKey(name, "max_tokens_per_sec") :> RatMax(tokens_per_sec))
             ELSE NoMetrics)
    ELSE NoMetrics

AcceptStats_counts_zero(name, accept_lengths) ==
    IF accept_lengths # <<>>
    THEN (MetricKey(name, "avg_accept_length")
              :> Rat(Sum(accept_lengths), Len(accept_lengths)))
         @@ (MetricKey(name, "max_accept_length") :> Rat(Max(accept_lengths), 1))
         @@ (MetricKey(name, "acceptance_rate")
                 :> Rat(Len(SelectSeq(accept_lengths, LAMBDA al : al >= 0)),
                        Len(accept_lengths)))
    ELSE NoMetrics

\* lines 330-337
AcceptStats(name, accept_lengths) ==
    IF accept_lengths # <<>>
    THEN (MetricKey(name, "avg_accept_length")
              :> Rat(Sum(accept_lengths), Len(accept_lengths)))
         @@ (MetricKey(name, "max_accept_length") :> Rat(Max(accept_lengths), 1))
         @@ (IF Len(accept_lengths) > 0
             THEN MetricKey(name, "acceptance_rate")
                      :> Rat(Len(SelectSeq(accept_lengths, LAMBDA al : al > 0)),
                             Len(accept_lengths))
             ELSE NoMetrics)
    ELSE NoMetrics

\* line 273: the lines that reach json.loads
NonBlank(file) == SelectSeq(file, LAMBDA line : line.kind # "blank")

LoadRaises_lenient(file) == FALSE

\* line 273: json.loads raises on the first line that is not JSON, and the
\* list comprehension is abandoned as a whole
LoadRaises(file) == \E k \in 1..Len(file) : file[k].kind = "bad"

_parse_benchmark_results_no_empty_return(results_file, name) ==
    LET results == NonBlank(results_file)
        total == MetricKey(name, "total_questions") :> Rat(Len(results), 1)
    IN IF LoadRaises(results_file) THEN NoMetrics
       ELSE IF \E k \in 1..Len(results) : results[k].kind = "scalar" THEN total
       ELSE total @@ WallTimeStats(name, Extend(results, "wall_time"))
                  @@ DecodingStats(name, Extend(results, "decoding_steps"))
                  @@ TokenStats(name, Extend(results, "new_tokens"),
                                Extend(results, "wall_time"))
                  @@ AcceptStats(name, Extend(results, "accept_lengths"))

\* lines 268-342. The whole body is one try block: an exception raised in
\* it leaves `metrics` as it was at that point, and that is what is returned.
_parse_benchmark_results(results_file, name) ==
    LET results == NonBlank(results_file)
        total == MetricKey(name, "total_questions") :> Rat(Len(results), 1)
        wall_times == Extend(results, "wall_time")
        decoding_steps == Extend(results, "decoding_steps")
        new_tokens == Extend(results, "new_tokens")
        accept_lengths == Extend(results, "accept_lengths")
    IN IF LoadRaises(results_file) THEN NoMetrics
       ELSE IF results = <<>> THEN NoMetrics
       ELSE IF \E k \in 1..Len(results) : results[k].kind = "scalar" THEN total
       ELSE total @@ WallTimeStats(name, wall_times)
                  @@ DecodingStats(name, decoding_steps)
                  @@ TokenStats(name, new_tokens, wall_times)
                  @@ AcceptStats(name, accept_lengths)

\* ------------------------------------------------------------------------
\* State
\* ------------------------------------------------------------------------
VARIABLES
    \* inputs of the invocation: command line, configuration, environment
    single_file,        \* --single-file given
    model_name,         \* --model-name, <<>> when not given
    no_mlflow,          \* --no-mlflow given
    MLFLOW_AVAILABLE,   \* module global set by the import at lines 20-26
    lakefs_keys,        \* config['lakefs'] holds access_key and secret_key
    mlflow_creds,       \* config['mlflow'] holds username and password
    torch_ok,           \* `import torch` of get_system_info succeeds
    path_exists,        \* os.path.exists of the results directory / the single file
    result_files,       \* glob.glob result (stems), or the one --single-file
    disk,               \* local files: file name -> lines
    \* the process
    pc,                 \* position in main and in the function it called
    mlflow_logger,      \* local of main: "unbound", "None" or "obj"
    enabled,            \* MLflowLogger.enabled
    next_file,          \* position of the loop of line 530 in result_files
    uploaded_files,     \* local of upload_benchmark_results
    failed_files,       \* local of upload_benchmark_results
    commit_id,          \* value returned by commit_changes, 0 for None
    metrics,            \* local of log_benchmark_results (line 259), last value
    success,            \* value returned to main: "unset", "True", "False"
    safe_model_name,    \* local of upload_single_result, <<>> while not assigned
    metadata,           \* what line 552 dumps to temp_metadata.json: <<>> while
                        \* not written, else one record
    exit_code,          \* process exit status, -1 while running
    \* the LakeFS repository
    branches,           \* names of the branches that exist
    staged,             \* uncommitted objects, <<branch, path>>
    commits,            \* sequence of commits, [branch, paths]
    \* the MLflow backend
    run_state,          \* "none", "active", "ended"
    mlflow_metrics,     \* metric key -> last value logged
    mlflow_params,      \* names of the parameter groups logged
    \* history of calls, in order: [op, arg, up, ok]
    calls,
    \* a second invocation of the program running at the same time on the
    \* same repository: [pc, created, uploaded, commit_id], pc "off" when
    \* there is none
    peer

inputs == <<single_file, model_name, no_mlflow, MLFLOW_AVAILABLE, lakefs_keys,
            mlflow_creds, torch_ok, path_exists, result_files, disk>>
locals == <<mlflow_logger, enabled, next_file, uploaded_files, failed_files,
            commit_id, success>>
remote == <<branches, staged, commits, run_state, mlflow_metrics, mlflow_params,
            metrics, calls>>
composed == <<safe_model_name, metadata>>
vars == <<inputs, pc, locals, composed, exit_code, remote, peer>>

\* ------------------------------------------------------------------------
\* The remote side (and the last aggregation) as one value, threaded
\* through the calls of a step
\* ------------------------------------------------------------------------
World ==
    [branches |-> branches, staged |-> staged, commits |-> commits,
     run_state |-> run_state, metrics |-> mlflow_metrics, params |-> mlflow_params,
     parsed |-> metrics, calls |-> calls, ret |-> FALSE, id |-> 0]

SetWorld(w) ==
    /\ branches' = w.branches
    /\ staged' = w.staged
    /\ commits' = w.commits
    /\ run_state' = w.run_state
    /\ mlflow_metrics' = w.metrics
    /\ mlflow_params' = w.params
    /\ metrics' = w.parsed
    /\ calls' = w.calls

\* up: the environment let the call through; ok: what the call reported
Call(op, arg, up, ok) == [op |-> op, arg |-> arg, up |-> up, ok |-> ok]

Logged(w, op, arg, up, ok) == [w EXCEPT !.calls = Append(@, Call(op, arg, up, ok))]

\* ------------------------------------------------------------------------
\* LakeFSUploader (lines 79-169). `up` is the environment's part of the
\* outcome: the request reaches the server and is authorised.
\* ------------------------------------------------------------------------
check_connection_always_true(w, up) ==
    [Logged(w, "list_repositories", <<>>, up, up) EXCEPT !.ret = TRUE]

\* lines 160-169
check_connection(w, up) ==
    [Logged(w, "list_repositories", <<>>, up, up) EXCEPT !.ret = up]

create_branch_exists_ok(w, branch_name, up) ==
    [Logged(w, "create_branch", branch_name, up, up) EXCEPT
        !.branches = IF up THEN @ \cup {branch_name} ELSE @,
        !.ret = up]

\* lines 131-144: the server refuses to create a branch that exists
\* (409 Conflict); any exception is caught and reported as False
create_branch(w, branch_name, up) ==
    LET ok == up /\ branch_name \notin w.branches
    IN [Logged(w, "create_branch", branch_name, up, ok) EXCEPT
            !.branches = IF ok THEN @ \cup {branch_name} ELSE @,
            !.ret = ok]

\* lines 104-129: here `up` also says that the local file could be read;
\* the server refuses an object for a branch that does not exist; any
\* exception is caught and reported as False
upload_file(w, branch, remote_path, up) ==
    LET ok == up /\ branch \in w.branches
    IN [Logged(w, "upload_file", remote_path, up, ok) EXCEPT
            !.staged = IF ok THEN @ \cup {<<branch, remote_path>>} ELSE @,
            !.ret = ok]

StagedOn(w, branch) == { o \in w.staged : o[1] = branch }

commit_changes_rolls_back(w, branch, up) ==
    LET ok == up /\ branch \in w.branches /\ StagedOn(w, branch) # {}
    IN [Logged(w, "commit", branch, up, ok) EXCEPT
            !.commits = IF ok
                        THEN Append(@, [branch |-> branch,
                                        paths |-> { o[2] : o \in StagedOn(w, branch) }])
                        ELSE @,
            !.staged = @ \ StagedOn(w, branch),
            !.ret = ok,
            !.id = IF ok THEN Len(w.commits) + 1 ELSE 0]

\* lines 146-158: the server refuses a commit on a missing branch or with
\* nothing to commit; any exception is caught and reported as None
commit_changes(w, branch, up) ==
    LET ok == up /\ branch \in w.branches /\ StagedOn(w, branch) # {}
    IN [Logged(w, "commit", branch, up, ok) EXCEPT
            !.commits = IF ok
                        THEN Append(@, [branch |-> branch,
                                        paths |-> { o[2] : o \in StagedOn(w, branch) }])
                        ELSE @,
            !.staged = IF ok THEN @ \ StagedOn(w, branch) ELSE @,
            !.ret = ok,
            !.id = IF ok THEN Len(w.commits) + 1 ELSE 0]

\* ------------------------------------------------------------------------
\* MLflowLogger (lines 172-350). `up` says whether the backend call of the
\* method succeeds; a backend failure is taken to strike at the first call
\* of the method, so that nothing of that method is logged.
\* ------------------------------------------------------------------------
\* lines 204-219
start_run(w, en, up) ==
    LET w1 == Logged(w, "start_run", <<>>, TRUE, TRUE)
    IN IF ~en THEN w1
       ELSE [Logged(w1, "mlflow.start_run", <<>>, up, up) EXCEPT
                !.run_state = IF up THEN "active" ELSE @]

\* lines 221-229
log_params(w, en, group, up) ==
    LET w1 == Logged(w, "log_params", <<group>>, TRUE, TRUE)
    IN IF ~en THEN w1
       ELSE [Logged(w1, "mlflow.log_param", <<group>>, up, up) EXCEPT
                !.params = IF up THEN @ \cup {group} ELSE @]

\* lines 231-239
log_metrics(w, en, values, tag, up) ==
    LET w1 == Logged(w, "log_metrics", tag, TRUE, TRUE)
    IN IF ~en THEN w1
       ELSE [Logged(w1, "mlflow.log_metric", tag, up, up) EXCEPT
                !.metrics = IF up THEN values @@ @ ELSE @]

\* lines 241-251
log_artifacts(w, en, up) ==
    LET w1 == Logged(w, "log_artifacts", <<>>, TRUE, TRUE)
    IN IF ~en THEN w1
       ELSE Logged(w1, "mlflow.log_artifact", <<>>, up, up)

\* lines 253-265
log_benchmark_results(w, en, files, results_file, name, up) ==
    LET w1 == Logged(w, "log_benchmark_results", name, TRUE, TRUE)
    IN IF ~en \/ results_file \notin DOMAIN files THEN w1
       ELSE LET parsed == _parse_benchmark_results(files[results_file], name)
                w2 == [w1 EXCEPT !.parsed = parsed]
            IN IF DOMAIN parsed # {}
               THEN log_metrics(w2, en, parsed, name, up)
               ELSE w2

end_run_ignores_enabled(w, en, up) ==
    [Logged(Logged(w, "end_run", <<>>, TRUE, TRUE), "mlflow.end_run", <<>>, up, up)
        EXCEPT !.run_state = IF up /\ @ = "active" THEN "ended" ELSE @]

\* lines 344-350
end_run(w, en, up) ==
    LET w1 == Logged(w, "end_run", <<>>, TRUE, TRUE)
    IN IF ~en THEN w1
       ELSE [Logged(w1, "mlflow.end_run", <<>>, up, up) EXCEPT
                !.run_state = IF up /\ @ = "active" THEN "ended" ELSE @]

\* ------------------------------------------------------------------------
\* Initial states of one invocation of main
\* ------------------------------------------------------------------------
\* the branch this invocation publishes to
experiment_branch == IF single_file THEN SingleBranch(model_name) ELSE BatchBranch

\* the timestamp of remote paths: line 432 (single file) and line 506 (batch)
timestamp == IF single_file THEN Stamp("%Y%m%d") ELSE Stamp("%Y%m%d_%H%M%S")

\* what glob.glob can return: the files that are there, each once
ResultFileLists ==
    { SelectSeq(DirListing, LAMBDA stem : stem \in present) :
        present \in { S \in SUBSET FileStems : Cardinality(S) <= MaxFiles } }

\* content of the result files of the pipeline runs
SampleContent(stem) ==
    CASE stem = <<"a">> -> <<Record(<<FullChoice>>), Record(<<ZeroChoice>>)>>
      [] stem = <<"a", "-", "b">> -> <<Record(<<FullChoice>>)>>
      [] stem = <<"b">> -> <<Record(<<FullChoice>>), BadLine>>
      [] OTHER -> <<Record(<<SparseChoice>>), BlankLine>>

DiskOf(files) ==
    [f \in { Filename(stem) : stem \in Range(files) } |->
        SampleContent(RemoveTok(f, ".jsonl"))]

\* no second invocation
PeerOff == [pc |-> "off", created |-> FALSE, uploaded |-> FALSE, commit_id |-> 0]

InitLocals ==
    /\ next_file = 1
    /\ uploaded_files = <<>>
    /\ failed_files = <<>>
    /\ commit_id = 0
    /\ success = "unset"
    /\ safe_model_name = <<>>
    /\ metadata = <<>>
    /\ exit_code = -1

InitRemote ==
    /\ staged = {}
    /\ commits = <<>>
    /\ run_state = "none"
    /\ mlflow_metrics = NoMetrics
    /\ mlflow_params = {}
    /\ metrics = NoMetrics
    /\ calls = <<>>

InitBatch ==
    /\ single_file = FALSE
    /\ model_name = <<>>
    /\ no_mlflow \in BOOLEAN
    /\ MLFLOW_AVAILABLE \in (IF no_mlflow THEN {TRUE} ELSE BOOLEAN)
    /\ mlflow_creds \in (IF no_mlflow \/ ~MLFLOW_AVAILABLE THEN {TRUE} ELSE BOOLEAN)
    /\ path_exists \in BOOLEAN
    /\ result_files \in (IF path_exists THEN ResultFileLists ELSE {<<>>})

InitSingle ==
    /\ single_file = TRUE
    /\ model_name \in ModelNames
    /\ no_mlflow = FALSE
    /\ MLFLOW_AVAILABLE = TRUE
    /\ mlflow_creds = TRUE
    /\ path_exists \in BOOLEAN
    /\ result_files \in { <<stem>> : stem \in FileStems }

\* the branch of this time bucket may exist already: an earlier invocation
\* of the same second (batch) or the same day and model (single file) made it
Init ==
    /\ InitBatch \/ InitSingle
    /\ lakefs_keys \in BOOLEAN
    /\ torch_ok \in BOOLEAN
    /\ disk = DiskOf(result_files)
    /\ branches \in { {<<"main">>}, {<<"main">>, experiment_branch} }
    /\ pc = "start"
    /\ mlflow_logger = "unbound"
    /\ enabled = FALSE
    /\ InitLocals
    /\ peer = PeerOff
    /\ InitRemote

\* ------------------------------------------------------------------------
\* main and the two upload functions, one action per step
\* ------------------------------------------------------------------------
Return(value) == success' = value /\ pc' = "returned"

Preflight_no_empty_check(connected) == connected /\ path_exists

Preflight_no_probe_check(connected) == path_exists /\ result_files # <<>>

\* lines 484-499: the three early returns before the branch is created
Preflight(connected) == connected /\ path_exists /\ result_files # <<>>

Uploaded_unconditional(list, ok, remote_path) == Append(list, remote_path)

\* lines 534-535 and 554-555: a remote path is recorded when its upload
\* returned True
Uploaded(list, ok, remote_path) == IF ok THEN Append(list, remote_path) ELSE list

\* lines 541-542
Failed(list, ok, filename) == IF ok THEN list ELSE Append(list, filename)

MoreFiles_break_on_failure(position, ok) == ok /\ position < Len(result_files)

\* line 530: the for loop goes on to the next file whatever upload_file
\* returned for this one; no branch of lines 534-542 leaves the loop
MoreFiles(position, ok) == position < Len(result_files)

NextPosition_retries_first_failure(position, ok) ==
    IF ok \/ failed_files # <<>> THEN position + 1 ELSE position

\* line 530: the for loop takes each element of result_files once
NextPosition(position, ok) == position + 1

AnyUploaded_always(list) == TRUE

\* lines 545 and 565: `if uploaded_files`
AnyUploaded(list) == list # <<>>

Verdict_always_true(id) == "True"

\* lines 576-605 and 454-462: the value returned once commit_changes is back
Verdict(id) == IF id # 0 THEN "True" ELSE "False"

Proceed_only_if_created(created, next) == IF created THEN next ELSE "returned"

\* lines 508-510 and 439-440: create_branch is called as a statement, the
\* function goes on to `next` whatever the call returned
Proceed(created, next) == next

LogsBenchmark_regardless(ok) == mlflow_logger = "obj"

\* lines 534-540: log_benchmark_results is called in the branch taken when
\* upload_file returned True, and `if mlflow_logger` holds for any object
LogsBenchmark(ok) == ok /\ mlflow_logger = "obj"

create_metadata_file_lists_candidates(list) ==
    [uploaded_files |-> [i \in 1..Len(result_files) |->
                            RemotePath(timestamp, Filename(result_files[i]))],
     file_count |-> Len(result_files)]

\* lines 383-396: the manifest lists the paths recorded so far and counts
\* them (system information, configuration snapshot and sizes left out)
create_metadata_file(list) == [uploaded_files |-> list, file_count |-> Len(list)]

CommitDue_needs_manifest(list, manifest_ok) == AnyUploaded(list) /\ manifest_ok

\* line 565: `if uploaded_files`; what the upload of the manifest returned
\* (line 554) is not consulted
CommitDue(list, manifest_ok) == AnyUploaded(list)

Escapes_reraised(en, up) == en /\ ~up

\* lines 217-219, 228-229, 238-239, 250-251 and 264-265: each logging
\* method of the tracker wraps its backend calls in try / except Exception,
\* logs the error and returns; nothing reaches the caller
Escapes(en, up) == FALSE

\* lines 643-653: entry of the try block
Main ==
    /\ pc = "start"
    /\ IF single_file
       THEN pc' = "s_init" /\ UNCHANGED mlflow_logger
       ELSE pc' = "tracker_init" /\ mlflow_logger' = "None"
    /\ UNCHANGED <<inputs, peer, composed, enabled, next_file, uploaded_files, failed_files,
                   commit_id, success, exit_code, remote>>

\* lines 654-655 and MLflowLogger.__init__, lines 173-202. Line 190 assigns
\* username to os.environ: with no username that is os.environ[...] = None,
\* which raises TypeError outside the try block of line 197.
TrackerInit ==
    /\ pc = "tracker_init"
    /\ IF no_mlflow
       THEN pc' = "store_init" /\ UNCHANGED <<mlflow_logger, enabled, remote>>
       ELSE IF ~MLFLOW_AVAILABLE
       THEN /\ pc' = "store_init"
            /\ mlflow_logger' = "obj"
            /\ enabled' = FALSE
            /\ UNCHANGED remote
       ELSE IF ~mlflow_creds
       THEN pc' = "except_exc" /\ UNCHANGED <<mlflow_logger, enabled, remote>>
       ELSE \E up \in BOOLEAN :
            /\ pc' = "store_init"
            /\ mlflow_logger' = "obj"
            /\ enabled' = up
            /\ SetWorld(Logged(World, "mlflow.set_experiment", <<>>, up, up))
    /\ UNCHANGED <<inputs, peer, composed, next_file, uploaded_files, failed_files, commit_id,
                   success, exit_code>>

\* lines 476-481 and LakeFSUploader.__init__, lines 80-102
StoreInit ==
    /\ pc = "store_init"
    /\ IF lakefs_keys THEN pc' = "check" /\ UNCHANGED success ELSE Return("False")
    /\ UNCHANGED <<inputs, peer, composed, mlflow_logger, enabled, next_file, uploaded_files,
                   failed_files, commit_id, exit_code, remote>>

\* lines 483-503
CheckConnection ==
    /\ pc = "check"
    /\ \E up \in BOOLEAN :
        LET w == check_connection(World, up)
        IN /\ SetWorld(w)
           /\ IF Preflight(w.ret)
              THEN pc' = "branch" /\ UNCHANGED success
              ELSE Return("False")
    /\ UNCHANGED <<inputs, peer, composed, mlflow_logger, enabled, next_file, uploaded_files,
                   failed_files, commit_id, exit_code>>

\* lines 505-513: the value create_branch returns is not looked at
CreateBranch ==
    /\ pc = "branch"
    /\ \E up \in BOOLEAN :
        LET w == create_branch(World, experiment_branch, up)
        IN /\ SetWorld(w)
           /\ pc' = Proceed(w.ret, IF mlflow_logger = "obj" THEN "start_run"
                                   ELSE "upload")
    /\ UNCHANGED <<inputs, peer, composed, locals, exit_code>>

\* lines 513-520
StartRun ==
    /\ pc = "start_run"
    /\ \E up \in BOOLEAN :
        /\ SetWorld(start_run(World, enabled, up))
        /\ pc' = IF Escapes(enabled, up) THEN "except_exc" ELSE "sysinfo"
    /\ UNCHANGED <<inputs, peer, composed, locals, exit_code>>

\* lines 522-524: get_system_info imports torch (line 365), outside any try
SystemInfo ==
    /\ pc = "sysinfo"
    /\ IF torch_ok
       THEN \E up \in BOOLEAN :
            /\ SetWorld(log_params(World, enabled, "system_info", up))
            /\ pc' = IF Escapes(enabled, up) THEN "except_exc" ELSE "upload"
       ELSE pc' = "except_exc" /\ UNCHANGED remote
    /\ UNCHANGED <<inputs, peer, composed, locals, exit_code>>

\* lines 530-542: one iteration of the loop; after the last one, lines
\* 545 and 565 skip to `return False` of line 605 when nothing was uploaded
UploadNext ==
    /\ pc = "upload"
    /\ next_file <= Len(result_files)
    /\ \E up, tracker_up \in BOOLEAN :
        LET filename == Filename(result_files[next_file])
            remote_path == RemotePath(timestamp, filename)
            w == upload_file(World, experiment_branch, remote_path, up)
            w2 == IF LogsBenchmark(w.ret)
                  THEN log_benchmark_results(w, enabled, disk, filename,
                                             benchmark_name(filename), tracker_up)
                  ELSE w
            uploaded == Uploaded(uploaded_files, w.ret, remote_path)
        IN /\ SetWorld(w2)
           /\ uploaded_files' = uploaded
           /\ failed_files' = Failed(failed_files, w.ret, filename)
           /\ next_file' = NextPosition(next_file, w.ret)
           /\ IF LogsBenchmark(w.ret) /\ Escapes(enabled, tracker_up)
              THEN pc' = "except_exc" /\ UNCHANGED success
              ELSE IF MoreFiles(next_file, w.ret)
              THEN pc' = "upload" /\ UNCHANGED success
              ELSE IF AnyUploaded(uploaded) THEN pc' = "manifest" /\ UNCHANGED success
              ELSE Return("False")
    /\ UNCHANGED <<inputs, peer, composed, mlflow_logger, enabled, commit_id,
                   exit_code>>

\* lines 544-565: create_metadata_file calls get_system_info (line 386);
\* the manifest is dumped (line 552) before its own path is recorded
UploadManifest ==
    /\ pc = "manifest"
    /\ IF torch_ok
       THEN \E up, tracker_up \in BOOLEAN :
            LET w == upload_file(World, experiment_branch, MetadataPath(timestamp), up)
                w2 == IF mlflow_logger = "obj"
                      THEN log_artifacts(w, enabled, tracker_up) ELSE w
                uploaded == Uploaded(uploaded_files, w.ret, MetadataPath(timestamp))
            IN /\ SetWorld(w2)
               /\ metadata' = <<create_metadata_file(uploaded_files)>>
               /\ uploaded_files' = uploaded
               /\ IF mlflow_logger = "obj" /\ Escapes(enabled, tracker_up)
                  THEN pc' = "except_exc" /\ UNCHANGED success
                  ELSE IF CommitDue(uploaded, w.ret)
                  THEN pc' = "commit" /\ UNCHANGED success
                  ELSE Return("False")
       ELSE pc' = "except_exc"
            /\ UNCHANGED <<remote, uploaded_files, metadata, success>>
    /\ UNCHANGED <<inputs, peer, safe_model_name, mlflow_logger, enabled, next_file,
                   failed_files, commit_id, exit_code>>

\* lines 564-581 and 604-605
Commit ==
    /\ pc = "commit"
    /\ \E up \in BOOLEAN :
        LET w == commit_changes(World, experiment_branch, up)
        IN /\ SetWorld(w)
           /\ commit_id' = w.id
           /\ IF w.id # 0 /\ mlflow_logger = "obj"
              THEN pc' = "summary" /\ UNCHANGED success
              ELSE Return(Verdict(w.id))
    /\ UNCHANGED <<inputs, peer, composed, mlflow_logger, enabled, next_file, uploaded_files,
                   failed_files, exit_code>>

\* lines 584-589
final_metrics ==
    (<<"uploaded_files_count">> :> Rat(Len(uploaded_files), 1))
    @@ (<<"failed_files_count">> :> Rat(Len(failed_files), 1))
    @@ (<<"total_files_count">> :> Rat(Len(result_files), 1))
    @@ (<<"upload_success_rate">> :> Rat(Len(uploaded_files), Len(result_files)))

\* lines 582-602
LogSummary ==
    /\ pc = "summary"
    /\ \E up1, up2 \in BOOLEAN :
        /\ SetWorld(log_params(log_metrics(World, enabled, final_metrics,
                                           <<"final_metrics">>, up1),
                               enabled, "lakefs_commit", up2))
        /\ IF Escapes(enabled, up1) \/ Escapes(enabled, up2)
           THEN pc' = "except_exc" /\ UNCHANGED success
           ELSE Return(Verdict(commit_id))
    /\ UNCHANGED <<inputs, peer, composed, mlflow_logger, enabled, next_file, uploaded_files,
                   failed_files, commit_id, exit_code>>

\* lines 414-425
SingleInit ==
    /\ pc = "s_init"
    /\ IF path_exists /\ lakefs_keys THEN pc' = "s_check" /\ UNCHANGED success
       ELSE Return("False")
    /\ UNCHANGED <<inputs, peer, composed, mlflow_logger, enabled, next_file, uploaded_files,
                   failed_files, commit_id, exit_code, remote>>

\* lines 427-429
SingleCheck ==
    /\ pc = "s_check"
    /\ \E up \in BOOLEAN :
        LET w == check_connection(World, up)
        IN /\ SetWorld(w)
           /\ IF w.ret THEN pc' = "s_branch" /\ UNCHANGED success
              ELSE Return("False")
    /\ UNCHANGED <<inputs, peer, composed, mlflow_logger, enabled, next_file, uploaded_files,
                   failed_files, commit_id, exit_code>>

\* lines 431-440
SingleBranchStep ==
    /\ pc = "s_branch"
    /\ safe_model_name' = IF model_name # <<>> THEN sanitize_branch_name(model_name)
                          ELSE safe_model_name
    /\ \E up \in BOOLEAN :
        LET w == create_branch(World, experiment_branch, up)
        IN /\ SetWorld(w)
           /\ pc' = Proceed(w.ret, "s_upload")
    /\ UNCHANGED <<inputs, peer, metadata, locals, exit_code>>

\* lines 442-446 and 463-465
SingleUpload ==
    /\ pc = "s_upload"
    /\ \E up \in BOOLEAN :
        LET filename == Filename(result_files[1])
            w == upload_file(World, experiment_branch,
                             RemotePath(timestamp, filename), up)
        IN /\ SetWorld(w)
           /\ IF w.ret THEN pc' = "s_commit" /\ UNCHANGED success
              ELSE Return("False")
    /\ UNCHANGED <<inputs, peer, composed, mlflow_logger, enabled, next_file, uploaded_files,
                   failed_files, commit_id, exit_code>>

\* lines 447-462
SingleCommit ==
    /\ pc = "s_commit"
    /\ \E up \in BOOLEAN :
        LET w == commit_changes(World, experiment_branch, up)
        IN /\ SetWorld(w)
           /\ commit_id' = w.id
           /\ Return(Verdict(w.id))
    /\ UNCHANGED <<inputs, peer, composed, mlflow_logger, enabled, next_file, uploaded_files,
                   failed_files, exit_code>>

\* lines 664-666: only the batch branch of main ends the run
MainEndRun ==
    /\ pc = "returned"
    /\ IF ~single_file /\ mlflow_logger = "obj"
       THEN \E up \in BOOLEAN : SetWorld(end_run(World, enabled, up))
       ELSE UNCHANGED remote
    /\ pc' = "report"
    /\ UNCHANGED <<inputs, peer, composed, locals, exit_code>>

\* lines 668-673: SystemExit is no Exception, neither handler catches it
MainExit ==
    /\ pc = "report"
    /\ exit_code' = IF success = "True" THEN 0 ELSE 1
    /\ pc' = "exit_673"
    /\ UNCHANGED <<inputs, peer, composed, locals, remote>>

\* the positions inside the try block of lines 643-673
TryBlock ==
    { "start", "tracker_init", "store_init", "check", "branch", "start_run",
      "sysinfo", "upload", "manifest", "commit", "summary", "s_init", "s_check",
      "s_branch", "s_upload", "s_commit", "returned", "report" }

\* the process has terminated: at one of the three sys.exit calls of main,
\* or with an exception that no handler of main caught
Exited == { "exit_673", "exit_679", "exit_684", "crash" }

\* Ctrl-C: KeyboardInterrupt is no Exception, so none of the
\* `except Exception` clauses of the callees catches it
Interrupt ==
    /\ pc \in TryBlock
    /\ pc' = "except_kbd"
    /\ UNCHANGED <<inputs, peer, composed, locals, exit_code, remote>>

\* the body shared by the two handlers, lines 677-679 and 682-684:
\* `if mlflow_logger` reads a local that the single-file branch never binds
\* (UnboundLocalError leaves main uncaught: the interpreter exits with 1)
Handler(code, exit_pc) ==
    /\ IF mlflow_logger = "unbound"
       THEN /\ pc' = "crash"
            /\ exit_code' = 1
            /\ UNCHANGED remote
       ELSE /\ IF mlflow_logger = "obj"
               THEN \E up \in BOOLEAN : SetWorld(end_run(World, enabled, up))
               ELSE UNCHANGED remote
            /\ pc' = exit_pc
            /\ exit_code' = code
    /\ UNCHANGED <<inputs, peer, composed, locals>>

\* lines 675-679
ExceptKeyboardInterrupt == pc = "except_kbd" /\ Handler(130, "exit_679")

\* lines 680-684
ExceptException == pc = "except_exc" /\ Handler(1, "exit_684")

Next ==
    \/ Main
    \/ TrackerInit
    \/ StoreInit
    \/ CheckConnection
    \/ CreateBranch
    \/ StartRun
    \/ SystemInfo
    \/ UploadNext
    \/ UploadManifest
    \/ Commit
    \/ LogSummary
    \/ SingleInit
    \/ SingleCheck
    \/ SingleBranchStep
    \/ SingleUpload
    \/ SingleCommit
    \/ MainEndRun
    \/ MainExit
    \/ Interrupt
    \/ ExceptKeyboardInterrupt
    \/ ExceptException

Spec == Init /\ [][Next]_vars

\* the process is scheduled and each call it makes returns: a step that can
\* be taken is taken
LiveSpec == Spec /\ WF_vars(Next)

\* ------------------------------------------------------------------------
\* Two invocations at once: the one above, without tracker and without
\* interrupt, and a second one started in the same time bucket with the
\* same prefix, mode and model name, publishing a file of the same
\* basename. Of the second one only its calls on the store are followed.
\* ------------------------------------------------------------------------
BranchOf_unique(invocation) == experiment_branch \o <<"_", invocation>>

\* lines 506-507 and 432-437: the branch name is made of the prefix, the
\* model name and the time bucket; nothing in it tells invocations apart
BranchOf(invocation) == experiment_branch

\* lines 532 and 444: time bucket and basename
PathOf(invocation) == RemotePath(timestamp, Filename(result_files[1]))

\* the store after a call of the second invocation, whose calls are not
\* part of the history of the first
PeerWorld(w) == SetWorld([w EXCEPT !.calls = calls])

InitPair ==
    /\ (InitBatch /\ no_mlflow /\ result_files # <<>>) \/ InitSingle
    /\ path_exists
    /\ lakefs_keys = TRUE
    /\ torch_ok = TRUE
    /\ disk = DiskOf(result_files)
    /\ branches = {<<"main">>}
    /\ pc = "start"
    /\ mlflow_logger = "unbound"
    /\ enabled = FALSE
    /\ InitLocals
    /\ InitRemote
    /\ peer = [PeerOff EXCEPT !.pc = "branch"]

\* lines 510 and 440, second invocation
PeerCreateBranch ==
    /\ peer.pc = "branch"
    /\ \E up \in BOOLEAN :
        LET w == create_branch(World, BranchOf("peer"), up)
        IN /\ PeerWorld(w)
           /\ peer' = [peer EXCEPT !.pc = Proceed(w.ret, "upload"), !.created = w.ret]
    /\ UNCHANGED <<inputs, pc, locals, composed, exit_code>>

\* lines 534 and 446, second invocation
PeerUpload ==
    /\ peer.pc = "upload"
    /\ \E up \in BOOLEAN :
        LET w == upload_file(World, BranchOf("peer"), PathOf("peer"), up)
        IN /\ PeerWorld(w)
           /\ peer' = [peer EXCEPT !.pc = IF w.ret THEN "commit" ELSE "done",
                                   !.uploaded = w.ret]
    /\ UNCHANGED <<inputs, pc, locals, composed, exit_code>>

\* lines 574 and 449, second invocation
PeerCommit ==
    /\ peer.pc = "commit"
    /\ \E up \in BOOLEAN :
        LET w == commit_changes(World, BranchOf("peer"), up)
        IN /\ PeerWorld(w)
           /\ peer' = [peer EXCEPT !.pc = "done", !.commit_id = w.id]
    /\ UNCHANGED <<inputs, pc, locals, composed, exit_code>>

NextPair ==
    \/ Main
    \/ TrackerInit
    \/ StoreInit
    \/ CheckConnection
    \/ CreateBranch
    \/ UploadNext
    \/ UploadManifest
    \/ Commit
    \/ SingleInit
    \/ SingleCheck
    \/ SingleBranchStep
    \/ SingleUpload
    \/ SingleCommit
    \/ MainEndRun
    \/ MainExit
    \/ PeerCreateBranch
    \/ PeerUpload
    \/ PeerCommit

PairSpec == InitPair /\ [][NextPair]_vars

\* ------------------------------------------------------------------------
\* The aggregator on its own: log_benchmark_results applied to one file
\* whose lines are drawn from SampleLines
\* ------------------------------------------------------------------------
ResultFiles == SeqsUpTo(SampleLines, MaxLines)

InitAgg ==
    /\ single_file = FALSE
    /\ model_name = <<>>
    /\ no_mlflow = FALSE
    /\ MLFLOW_AVAILABLE = TRUE
    /\ lakefs_keys = TRUE
    /\ mlflow_creds = TRUE
    /\ torch_ok = TRUE
    /\ path_exists \in BOOLEAN
    /\ result_files \in { <<stem>> : stem \in FileStems }
    /\ disk \in (IF path_exists
                 THEN { Filename(result_files[1]) :> lines : lines \in ResultFiles }
                 ELSE { <<>> })
    /\ branches = {<<"main">>}
    /\ pc = "agg"
    /\ mlflow_logger = "obj"
    /\ enabled \in BOOLEAN
    /\ InitLocals
    /\ peer = PeerOff
    /\ InitRemote

\* lines 253-265, with metrics the value line 259 assigns
LogBenchmarkResults ==
    /\ pc = "agg"
    /\ \E up \in BOOLEAN :
        LET filename == Filename(result_files[1])
        IN SetWorld(log_benchmark_results(World, enabled, disk, filename,
                                          benchmark_name(filename), up))
    /\ pc' = "agg_done"
    /\ UNCHANGED <<inputs, peer, composed, locals, exit_code>>

NextAgg == LogBenchmarkResults

AggSpec == InitAgg /\ [][NextAgg]_vars

\* ------------------------------------------------------------------------
\* The store on its own: the three remote operations of LakeFSUploader
\* called in any order on one repository
\* ------------------------------------------------------------------------
\* largest number of calls made on the store
MaxCalls == 4

BranchNames == { BatchBranch, SingleBranch(<<"m">>) }

InitStore ==
    /\ single_file = FALSE
    /\ model_name = <<>>
    /\ no_mlflow = TRUE
    /\ MLFLOW_AVAILABLE = TRUE
    /\ lakefs_keys = TRUE
    /\ mlflow_creds = TRUE
    /\ torch_ok = TRUE
    /\ path_exists = TRUE
    /\ result_files = << <<"a">> >>
    /\ disk = DiskOf(result_files)
    /\ branches = {<<"main">>}
    /\ pc = "store"
    /\ mlflow_logger = "None"
    /\ enabled = FALSE
    /\ InitLocals
    /\ peer = PeerOff
    /\ InitRemote

CallCreateBranch ==
    /\ pc = "store"
    /\ Len(calls) < MaxCalls
    /\ \E name \in BranchNames, up \in BOOLEAN :
        SetWorld(create_branch(World, name, up))
    /\ UNCHANGED <<inputs, peer, composed, pc, locals, exit_code>>

CallUploadFile ==
    /\ pc = "store"
    /\ Len(calls) < MaxCalls
    /\ \E branch \in BranchNames, up \in BOOLEAN :
        SetWorld(upload_file(World, branch,
                             RemotePath(timestamp, Filename(result_files[1])), up))
    /\ UNCHANGED <<inputs, peer, composed, pc, locals, exit_code>>

CallCommitChanges ==
    /\ pc = "store"
    /\ Len(calls) < MaxCalls
    /\ \E branch \in BranchNames, up \in BOOLEAN :
        SetWorld(commit_changes(World, branch, up))
    /\ UNCHANGED <<inputs, peer, composed, pc, locals, exit_code>>

NextStore == CallCreateBranch \/ CallUploadFile \/ CallCommitChanges

StoreSpec == InitStore /\ [][NextStore]_vars

\* ------------------------------------------------------------------------
\* The branch name of a single-file run: upload_single_result up to the
\* creation of the branch, for model names drawn from NameChars
\* ------------------------------------------------------------------------
\* largest length of a model name
MaxNameLen == 3

NameChars == { "b", "-", "_", "/", "." }

InitSanitize ==
    /\ single_file = TRUE
    /\ model_name \in SeqsUpTo(NameChars, MaxNameLen) \cup ModelNames
    /\ no_mlflow = FALSE
    /\ MLFLOW_AVAILABLE = TRUE
    /\ lakefs_keys = TRUE
    /\ mlflow_creds = TRUE
    /\ torch_ok = TRUE
    /\ path_exists = TRUE
    /\ result_files = << <<"a">> >>
    /\ disk = DiskOf(result_files)
    /\ branches = {<<"main">>}
    /\ pc = "start"
    /\ mlflow_logger = "unbound"
    /\ enabled = FALSE
    /\ InitLocals
    /\ peer = PeerOff
    /\ InitRemote

NextSanitize == Main \/ SingleInit \/ SingleCheck \/ SingleBranchStep

SanitizeSpec == InitSanitize /\ [][NextSanitize]_vars

\* ------------------------------------------------------------------------
\* Properties
\* ------------------------------------------------------------------------
CallsWith(op) == { k \in 1..Len(calls) : calls[k].op = op }

Count(op) == Cardinality(CallsWith(op))

\* some upload_file call returned True
UploadSucceeded == \E k \in CallsWith("upload_file") : calls[k].ok

\* some commit_changes call returned a commit id
CommitObtained == \E k \in CallsWith("commit") : calls[k].ok

\* the upload function has returned to main
Returned == success # "unset"

\* the upload_file calls made for the remote path of a file
Attempts(remote_path) ==
    { k \in 1..Len(calls) :
        calls[k].op = "upload_file" /\ calls[k].arg = remote_path }

ResultPath(position) == RemotePath(timestamp, Filename(result_files[position]))

ManifestUploaded ==
    \E k \in Attempts(MetadataPath(timestamp)) : calls[k].ok

\* C1: a commit is attempted only after some upload_file call returned
\* True; while no upload has succeeded there is no commit call and
\* uploaded_files is empty, and a run that returns in that state returns
\* failure.
C1_CommitOnlyAfterUpload ==
    /\ \A k \in CallsWith("commit") :
          \E j \in 1..(k - 1) : calls[j].op = "upload_file" /\ calls[j].ok
    /\ ~UploadSucceeded =>
          /\ Count("commit") = 0
          /\ uploaded_files = <<>>
          /\ Returned => success = "False"

\* a batch run of at least two files, all of whose uploads failed, has exited
C1_Witness ==
    /\ ~single_file
    /\ pc = "exit_673"
    /\ Len(result_files) >= 2
    /\ Count("upload_file") = Len(result_files)
    /\ ~UploadSucceeded

\* C2: when the process of a run that constructed a tracker has exited,
\* by whichever path, the tracker's end_run has been executed exactly once.
C2_EndRunExactlyOnce ==
    (pc \in Exited /\ mlflow_logger = "obj") => Count("end_run") = 1

\* C3: in the batch loop the files before the loop position have exactly
\* one upload_file attempt each and the others none, and the loop is left
\* only when the position is past the last file: a failed upload neither
\* stops the loop nor skips a file.
C3_EveryFileAttemptedOnce ==
    ~single_file =>
        /\ \A i \in 1..Len(result_files) :
              Cardinality(Attempts(ResultPath(i))) = IF i < next_file THEN 1 ELSE 0
        /\ (pc \in { "manifest", "commit", "summary" }
                \/ (Returned /\ Count("create_branch") > 0))
              => next_file = Len(result_files) + 1

\* the first upload of a batch run failed, a later one succeeded, and the
\* loop is over
C3_Witness ==
    /\ ~single_file
    /\ pc = "commit"
    /\ Len(result_files) = 3
    /\ \E k \in Attempts(ResultPath(1)) : ~calls[k].ok
    /\ \E k \in Attempts(ResultPath(3)) : calls[k].ok

\* C4: once the upload function has returned, its result is success if and
\* only if commit_changes returned a commit id.
C4_SuccessIffCommit ==
    Returned =>
        /\ success = "True" <=> CommitObtained
        /\ success = "True" <=> commit_id # 0
        /\ ~lakefs_keys => success = "False"

\* an upload succeeded, the commit failed, and the run returned failure
C4_Witness ==
    /\ Returned
    /\ UploadSucceeded
    /\ Count("commit") = 1
    /\ ~CommitObtained
    /\ success = "False"

\* the result files whose upload returned False
FailedPositions ==
    { i \in 1..Len(result_files) : \E k \in Attempts(ResultPath(i)) : ~calls[k].ok }

\* C5: in a batch run over n files where the manifest upload and the commit
\* succeeded and k uploads failed, failed_files has length k, uploaded_files
\* has length n-k+1, every file is in exactly one of the two lists, and the
\* result is success.
C5_PartialFailureCounts ==
    (~single_file /\ CommitObtained /\ ManifestUploaded) =>
        LET n == Len(result_files)
            k == Cardinality(FailedPositions)
        IN /\ k < n
           /\ Len(failed_files) = k
           /\ Len(uploaded_files) = n - k + 1
           /\ \A i \in 1..n :
                 (ResultPath(i) \in Range(uploaded_files))
                     # (Filename(result_files[i]) \in Range(failed_files))
           /\ Returned => success = "True"

\* three files, one failed upload: uploaded_files has 3 entries, failed_files 1
C5_Witness ==
    /\ ~single_file
    /\ ManifestUploaded
    /\ success = "True"
    /\ Len(result_files) = 3
    /\ Len(failed_files) = 1
    /\ Len(uploaded_files) = 3

\* C6: a batch run that finds no result file makes no upload_file, no
\* create_branch and no commit call, starts no tracker run, returns failure,
\* and exits through line 673 with code 1.
C6_NoFilesNoCalls ==
    (~single_file /\ result_files = <<>>) =>
        /\ Count("upload_file") = 0
        /\ Count("create_branch") = 0
        /\ Count("commit") = 0
        /\ Count("start_run") = 0
        /\ Count("mlflow.start_run") = 0
        /\ Returned => success = "False"
        /\ pc = "exit_673" => exit_code = 1

\* the store answered, the directory exists and holds no result file
C6_Witness ==
    /\ ~single_file
    /\ result_files = <<>>
    /\ path_exists
    /\ \E k \in CallsWith("list_repositories") : calls[k].ok
    /\ pc = "exit_673"
    /\ exit_code = 1

\* the store could not be initialised, or the connectivity probe failed
StoreNotReady ==
    ~lakefs_keys \/ \E k \in CallsWith("list_repositories") : ~calls[k].ok

\* C7: when the store initialisation or the connectivity probe fails, no
\* branch is created, nothing is uploaded or committed, no tracker run is
\* started, the run returns failure, and nothing but end_run is called
\* after the probe.
C7_StoreFailureIsTerminal ==
    StoreNotReady =>
        /\ \A k \in 1..Len(calls) :
              calls[k].op \in { "mlflow.set_experiment", "list_repositories",
                                "end_run", "mlflow.end_run" }
        /\ \A j, k \in 1..Len(calls) :
              (j < k /\ calls[j].op = "list_repositories")
                  => calls[k].op \in { "end_run", "mlflow.end_run" }
        /\ Returned => success = "False"

\* the probe failed in a batch run with an enabled tracker, which was then
\* closed on the normal path
C7_Witness ==
    /\ ~single_file
    /\ enabled
    /\ \E k \in CallsWith("list_repositories") : ~calls[k].ok
    /\ Count("mlflow.end_run") = 1
    /\ pc = "exit_673"

\* C8: tracker initialisation never aborts the publish flow: the step goes
\* on to the store, and with credentials missing from the configuration it
\* leaves a tracker that is disabled.
C8_TrackerInitNeverAborts ==
    [][(pc = "tracker_init" /\ pc' # "except_kbd") =>
          /\ pc' = "store_init"
          /\ (~no_mlflow /\ ~mlflow_creds) => (mlflow_logger' = "obj" /\ ~enabled')]_vars

\* the create_branch calls that precede call k with the same branch name
\* and returned True
CreatedBefore(k) ==
    { j \in 1..(k - 1) : /\ calls[j].op = "create_branch"
                         /\ calls[j].arg = calls[k].arg
                         /\ calls[j].ok }

\* C9 as stated: a create_branch call that reaches the server after a
\* successful call with the same arguments returns success as well.
C9_CreateBranchIdempotent ==
    \A k \in CallsWith("create_branch") :
        (calls[k].up /\ CreatedBefore(k) # {}) => calls[k].ok

\* C9 amended: create_branch returns True exactly when the request reached
\* the server and no earlier call had created that branch; a repeated call
\* returns False, and the branches are those of the calls that returned True.
C9_RepeatedCreateFails ==
    /\ \A k \in CallsWith("create_branch") :
          calls[k].ok <=> (calls[k].up /\ CreatedBefore(k) = {})
    /\ branches = {<<"main">>}
                     \cup { calls[k].arg : k \in { j \in CallsWith("create_branch") :
                                                       calls[j].ok } }

\* the same branch was created once and asked for again, the server reachable
C9_Witness ==
    \E k \in CallsWith("create_branch") :
        calls[k].up /\ CreatedBefore(k) # {} /\ ~calls[k].ok

\* the lines of the aggregated file that are JSON
WellFormed(file) == SelectSeq(file, LAMBDA line : line.kind # "bad")

\* the file holds a line that is not JSON
HasMalformed(file) == \E k \in 1..Len(file) : file[k].kind = "bad"

\* the aggregator ran on the one file of the aggregator runs
Aggregated == pc = "agg_done" /\ enabled /\ path_exists

AggFile == disk[Filename(result_files[1])]

AggName == benchmark_name(Filename(result_files[1]))

\* C10 as stated: the aggregator returns the metrics of the well-formed
\* lines of the file, whatever malformed lines stand between them.
C10_MalformedLineSkipped ==
    Aggregated => metrics = _parse_benchmark_results(WellFormed(AggFile), AggName)

\* C10 amended: a malformed line is not fatal, but it empties the result:
\* the aggregator returns the empty mapping for the whole file and nothing
\* of that file is logged.
C10_MalformedLineEmptiesMetrics ==
    (Aggregated /\ HasMalformed(AggFile)) =>
        /\ metrics = NoMetrics
        /\ mlflow_metrics = NoMetrics
        /\ Count("log_metrics") = 0

\* a file with a malformed line next to records that have metrics
C10_Witness ==
    /\ Aggregated
    /\ HasMalformed(AggFile)
    /\ DOMAIN _parse_benchmark_results(WellFormed(AggFile), AggName) # {}
    /\ metrics = NoMetrics

\* the file is a record set: at least one line that is not blank, and
\* every such line a JSON object
IsRecordSet(file) ==
    /\ \E k \in 1..Len(file) : file[k].kind = "json"
    /\ \A k \in 1..Len(file) : file[k].kind \in { "blank", "json" }

\* the flattened array of the aggregated file
Flattened(key) == Extend(NonBlank(AggFile), key)

Positives(s) == Cardinality({ k \in 1..Len(s) : s[k] > 0 })

AggKey(metric) == MetricKey(AggName, metric)

\* C11 as stated: for every record set acceptance_rate is reported; it is
\* the share of the accept_lengths entries greater than zero, and it is 0
\* when the flattened accept_lengths list is empty.
C11_AcceptanceRateZeroWhenEmpty ==
    (Aggregated /\ IsRecordSet(AggFile)) =>
        LET accept_lengths == Flattened("accept_lengths")
        IN /\ AggKey("acceptance_rate") \in DOMAIN metrics
           /\ RatEq(metrics[AggKey("acceptance_rate")],
                    IF accept_lengths = <<>> THEN Rat(0, 1)
                    ELSE Rat(Positives(accept_lengths), Len(accept_lengths)))

\* C11 amended: acceptance_rate is reported exactly when the flattened
\* accept_lengths list is not empty; it is then the share of the entries
\* greater than zero, lies in [0,1], and is 0 for an all-zero list. For an
\* empty list the key is absent (not 0); nothing is divided by zero.
C11_AcceptanceRateAbsentWhenEmpty ==
    (Aggregated /\ IsRecordSet(AggFile)) =>
        LET accept_lengths == Flattened("accept_lengths")
            key == AggKey("acceptance_rate")
        IN /\ key \in DOMAIN metrics <=> accept_lengths # <<>>
           /\ accept_lengths # <<>> =>
                /\ metrics[key] = Rat(Positives(accept_lengths), Len(accept_lengths))
                /\ metrics[key][2] > 0
                /\ 0 <= metrics[key][1] /\ metrics[key][1] <= metrics[key][2]
                /\ (\A k \in 1..Len(accept_lengths) : accept_lengths[k] = 0)
                       => metrics[key][1] = 0

\* records with metrics but without any accept_lengths entry: the key of
\* acceptance_rate is not among the metrics returned
C11_Witness ==
    /\ Aggregated
    /\ IsRecordSet(AggFile)
    /\ Flattened("accept_lengths") = <<>>
    /\ AggKey("total_new_tokens") \in DOMAIN metrics
    /\ AggKey("acceptance_rate") \notin DOMAIN metrics

Present(metric) == AggKey(metric) \in DOMAIN metrics

\* C12: avg_tokens_per_sec and max_tokens_per_sec are reported exactly when
\* the flattened wall_time and new_tokens have the same length, not zero;
\* the statistics of each array are reported whenever that array is not
\* empty, with or without tokens_per_sec; and the ratio of a sample whose
\* wall time is 0 is 0.
C12_TokensPerSecIffEqualLengths ==
    (Aggregated /\ IsRecordSet(AggFile)) =>
        LET wall_times == Flattened("wall_time")
            new_tokens == Flattened("new_tokens")
            paired == Len(wall_times) = Len(new_tokens) /\ Len(new_tokens) > 0
            ratio == [k \in 1..Len(new_tokens) |->
                         IF wall_times[k] = 0 THEN Rat(0, 1)
                         ELSE Rat(new_tokens[k], wall_times[k])]
        IN /\ Present("avg_tokens_per_sec") <=> paired
           /\ Present("max_tokens_per_sec") <=> paired
           /\ Present("total_questions")
           /\ \A metric \in { "avg_wall_time", "total_wall_time", "max_wall_time",
                               "min_wall_time" } :
                  Present(metric) <=> wall_times # <<>>
           /\ \A metric \in { "avg_decoding_steps", "total_decoding_steps" } :
                  Present(metric) <=> Flattened("decoding_steps") # <<>>
           /\ \A metric \in { "avg_new_tokens", "total_new_tokens" } :
                  Present(metric) <=> new_tokens # <<>>
           /\ \A metric \in { "avg_accept_length", "max_accept_length" } :
                  Present(metric) <=> Flattened("accept_lengths") # <<>>
           /\ paired =>
                /\ RatEq(metrics[AggKey("avg_tokens_per_sec")],
                         Rat(RatSum(ratio)[1], RatSum(ratio)[2] * Len(ratio)))
                /\ \A k \in 1..Len(ratio) :
                      ~RatLess(metrics[AggKey("max_tokens_per_sec")], ratio[k])
                /\ \E k \in 1..Len(ratio) :
                      RatEq(metrics[AggKey("max_tokens_per_sec")], ratio[k])

\* wall times and token counts of different lengths, neither empty:
\* no tokens_per_sec, the statistics of both arrays are there
C12_Witness ==
    /\ Aggregated
    /\ IsRecordSet(AggFile)
    /\ Flattened("wall_time") # <<>>
    /\ Flattened("new_tokens") # <<>>
    /\ Len(Flattened("wall_time")) # Len(Flattened("new_tokens"))
    /\ ~Present("avg_tokens_per_sec")
    /\ Present("avg_wall_time")
    /\ Present("avg_new_tokens")

\* C13: for a file with no line other than blank ones the aggregator
\* returns the empty mapping, and log_benchmark_results logs nothing: no
\* log_metrics call, no metric at the backend.
C13_EmptyRecordSetLogsNothing ==
    (Aggregated /\ \A k \in 1..Len(AggFile) : AggFile[k].kind = "blank") =>
        /\ metrics = NoMetrics
        /\ Count("log_metrics") = 0
        /\ Count("mlflow.log_metric") = 0
        /\ mlflow_metrics = NoMetrics

\* the aggregator ran on a file of blank lines
C13_Witness ==
    /\ Aggregated
    /\ Len(AggFile) >= 2
    /\ \A k \in 1..Len(AggFile) : AggFile[k].kind = "blank"
    /\ Count("log_benchmark_results") = 1
    /\ metrics = NoMetrics

\* line 434 has run
Sanitized == pc = "s_upload" /\ model_name # <<>>

\* C14: the sanitized model name holds no character outside the class
\* [A-Za-z0-9_-] and does not begin with '-'. It is the model name with
\* each character outside the class replaced by '_' and the others in
\* place, except that a '-' at the front of that string gives way to the
\* prefix 'model_'. The branch created carries the sanitized name.
C14_SanitizedNameIsBranchSafe ==
    Sanitized =>
        LET replaced == [k \in 1..Len(model_name) |->
                            IF model_name[k] \in SafeChars THEN model_name[k]
                            ELSE "_"]
        IN /\ \A k \in 1..Len(safe_model_name) : safe_model_name[k] \in SafeChars
           /\ safe_model_name # <<>>
           /\ safe_model_name[1] # "-"
           /\ IF replaced[1] = "-"
              THEN safe_model_name = <<"m", "o", "d", "e", "l", "_">>
                                         \o SubSeq(replaced, 2, Len(replaced))
              ELSE safe_model_name = replaced
           /\ calls[Len(calls)].op = "create_branch"
           /\ calls[Len(calls)].arg = branch_prefix \o <<"_">> \o safe_model_name
                                          \o <<"_">> \o Stamp("%Y%m%d")

\* the model name "--b/n" became "model_-b_n"
C14_Witness ==
    /\ Sanitized
    /\ model_name = <<"-", "-", "b", "/", "n">>
    /\ safe_model_name = <<"m", "o", "d", "e", "l", "_", "-", "b", "_", "n">>

\* the benchmark name under which the file at a position is aggregated
NameOf(position) == benchmark_name(Filename(result_files[position]))

\* the keys of the metrics the aggregator returns for the file at a position
KeysOf(position) ==
    DOMAIN _parse_benchmark_results(disk[Filename(result_files[position])],
                                    NameOf(position))

\* the positions whose file was handed to log_benchmark_results
AggregatedPositions ==
    { i \in 1..Len(result_files) :
        /\ \E k \in Attempts(ResultPath(i)) : calls[k].ok
        /\ \E k \in CallsWith("log_benchmark_results") : calls[k].arg = NameOf(i) }

\* C15: in a batch run with the tracker enabled every metric key of a file
\* begins with that file's benchmark name, and the key sets of two distinct
\* result files that were aggregated are disjoint.
C15_MetricKeysDisjoint ==
    (~single_file /\ mlflow_logger = "obj" /\ enabled) =>
        /\ \A i \in AggregatedPositions : \A key \in KeysOf(i) :
              /\ Len(key) > Len(NameOf(i))
              /\ SubSeq(key, 1, Len(NameOf(i))) = NameOf(i)
        /\ \A i, j \in AggregatedPositions :
              i # j => KeysOf(i) \cap KeysOf(j) = {}

\* C16: the process ends at one of the three sys.exit calls of main, with
\* the code of its terminal state: at line 673 with 0 when the upload
\* function returned True and 1 otherwise, at line 684 (exception) with 1, at
\* line 679 (KeyboardInterrupt) with 130; and once the mode is entered
\* (single-file mode, or batch mode past line 653) it ends nowhere else.
C16_ExitCodeReflectsOutcome ==
    /\ pc = "exit_673" => exit_code = (IF success = "True" THEN 0 ELSE 1)
    /\ pc = "exit_684" => exit_code = 1
    /\ pc = "exit_679" => exit_code = 130
    /\ (single_file \/ mlflow_logger # "unbound") =>
          (pc \in Exited => pc \in { "exit_673", "exit_679", "exit_684" })

\* some upload_file call for the remote path returned True
Confirmed(remote_path) ==
    \E k \in 1..Len(calls) :
        calls[k].op = "upload_file" /\ calls[k].arg = remote_path /\ calls[k].ok

\* the remote paths of the upload_file calls that returned ok
PathsReturning(ok) ==
    { calls[k].arg : k \in { c \in 1..Len(calls) :
                                calls[c].op = "upload_file" /\ calls[c].ok = ok } }

\* C17: uploaded_files holds only remote paths whose upload returned True,
\* so no path of a failed upload and no path of a file not yet attempted;
\* the manifest written lists exactly the result paths confirmed by then,
\* and its file_count is the number of paths it lists.
C17_OnlyConfirmedPathsListed ==
    LET path == [i \in 1..Len(result_files) |-> ResultPath(i)]
        listed == Range(uploaded_files)
        confirmed == PathsReturning(TRUE)
        failed == PathsReturning(FALSE)
    IN
    /\ listed \subseteq confirmed
    /\ \A i \in 1..Len(result_files) :
          path[i] \in listed => (i < next_file /\ path[i] \notin failed)
    /\ metadata # <<>> =>
          /\ Range(metadata[1].uploaded_files)
                 = { path[i] : i \in { j \in 1..Len(result_files) :
                                          path[j] \in confirmed } }
          /\ metadata[1].file_count = Len(metadata[1].uploaded_files)
          /\ metadata[1].file_count = Cardinality(Range(metadata[1].uploaded_files))

\* three files, one failed upload: the manifest uploaded lists two paths
C17_Witness ==
    /\ Len(result_files) = 3
    /\ Cardinality(FailedPositions) = 1
    /\ metadata # <<>>
    /\ metadata[1].file_count = 2
    /\ ManifestUploaded

\* a batch run whose tracker is enabled
TrackedBatch == ~single_file /\ mlflow_logger = "obj" /\ enabled

\* C18 as stated: in a batch run with the tracker enabled every result
\* file the loop has dealt with was handed to log_benchmark_results,
\* whether its upload succeeded or failed.
C18_EveryFileAggregated ==
    TrackedBatch => Count("log_benchmark_results") = next_file - 1

\* C18 amended: in a batch run with the tracker enabled a result file is
\* handed to log_benchmark_results exactly when its upload returned True,
\* right after that upload; a file whose upload failed is not aggregated.
C18_AggregatedIffUploaded ==
    TrackedBatch =>
        LET done == 1..(next_file - 1)
            path == [i \in done |-> ResultPath(i)]
            name == [i \in done |-> NameOf(i)]
            manifest == MetadataPath(timestamp)
            confirmed == PathsReturning(TRUE)
        IN  /\ \A k \in 1..Len(calls) :
                  /\ calls[k].op = "log_benchmark_results" =>
                        /\ k > 1
                        /\ calls[k - 1].op = "upload_file"
                        /\ calls[k - 1].ok
                        /\ \E i \in done :
                              /\ calls[k - 1].arg = path[i]
                              /\ calls[k].arg = name[i]
                  /\ calls[k].op = "upload_file" =>
                        IF calls[k].ok /\ calls[k].arg # manifest
                        THEN k < Len(calls)
                             /\ calls[k + 1].op = "log_benchmark_results"
                        ELSE k = Len(calls)
                             \/ calls[k + 1].op # "log_benchmark_results"
            /\ Count("log_benchmark_results")
                  = Cardinality({ i \in done : path[i] \in confirmed })

\* the loop is over, one upload failed: one aggregation fewer than files
C18_Witness ==
    /\ TrackedBatch
    /\ next_file = Len(result_files) + 1
    /\ Cardinality(FailedPositions) = 1
    /\ Count("log_benchmark_results") = Len(result_files) - 1
    /\ Count("log_benchmark_results") >= 1

\* create_branch was called and returned False
FailedCreate == \E k \in CallsWith("create_branch") : ~calls[k].ok

\* the upload function is back in main, by a return statement
BackInMain == pc \in { "returned", "report", "exit_673" }

\* C19: when create_branch returned False the function goes on as it does
\* otherwise: by the time it is back in main every result file had its
\* upload attempted (the one file in single-file mode), a commit was
\* attempted if an upload of a result file succeeded, and uploads and
\* commits went to the computed branch.
C19_FailedCreateDoesNotAbort ==
    (BackInMain /\ FailedCreate) =>
        /\ \A i \in 1..Len(result_files) : Cardinality(Attempts(ResultPath(i))) = 1
        /\ (\E i \in 1..Len(result_files) : Confirmed(ResultPath(i)))
              => Count("commit") = 1
        /\ \A k \in CallsWith("commit") : calls[k].arg = experiment_branch
        /\ \A object \in staged : object[1] = experiment_branch
        /\ \A k \in 1..Len(commits) : commits[k].branch = experiment_branch
        /\ success \in { "True", "False" }

\* the branch was there already: create_branch returned False, the files
\* were uploaded to it and committed, and the run reports success
C19_Witness ==
    /\ \E k \in CallsWith("create_branch") : calls[k].up /\ ~calls[k].ok
    /\ pc = "exit_673"
    /\ Len(result_files) >= 2
    /\ \A i \in 1..Len(result_files) : Confirmed(ResultPath(i))
    /\ CommitObtained
    /\ exit_code = 0

\* some result file of the run was uploaded
ResultUploaded == \E i \in 1..Len(result_files) : Confirmed(ResultPath(i))

ManifestAttempts == Attempts(MetadataPath(timestamp))

\* C20: in a batch run the manifest upload is attempted at most once and
\* only after a result file was uploaded; once the function is at the commit
\* or back in main it was attempted exactly if a result file was uploaded;
\* its path is in uploaded_files exactly if its upload returned True; and
\* whatever it returned, a run with an uploaded result file attempts the
\* commit once and returns True exactly if the commit gave an id.
C20_ManifestBestEffort ==
    ~single_file =>
        LET attempts == Cardinality(ManifestAttempts)
            confirmed == PathsReturning(TRUE)
            uploaded == \E i \in 1..Len(result_files) : ResultPath(i) \in confirmed
        IN  /\ attempts <= 1
            /\ attempts > 0 => uploaded
            /\ (pc \in { "commit", "summary" } \/ BackInMain) =>
                  (attempts > 0 <=> uploaded)
            /\ MetadataPath(timestamp) \in Range(uploaded_files)
                  <=> MetadataPath(timestamp) \in confirmed
            /\ (BackInMain /\ uploaded) =>
                  /\ Count("commit") = 1
                  /\ success = "True" <=> CommitObtained

\* the upload of the manifest failed, the commit was made and the run
\* reports success
C20_Witness ==
    /\ ~single_file
    /\ ManifestAttempts # {}
    /\ ~ManifestUploaded
    /\ MetadataPath(timestamp) \notin Range(uploaded_files)
    /\ CommitObtained
    /\ success = "True"
    /\ exit_code = 0

\* the operations the program calls on the store
StoreOps == { "list_repositories", "create_branch", "upload_file", "commit" }

StoreCalls == { k \in 1..Len(calls) : calls[k].op \in StoreOps }

\* C21: when the commit fails after an upload succeeded, the function
\* returns False and the process exits with 1; every object whose upload
\* returned True is still on the branch, uncommitted; the commit was called
\* once and was the last call made on the store (no retry, no delete, no
\* further upload).
C21_FailedCommitLeavesUploads ==
    (BackInMain /\ UploadSucceeded /\ Count("commit") >= 1 /\ ~CommitObtained) =>
        /\ success = "False"
        /\ pc = "exit_673" => exit_code = 1
        /\ \A k \in CallsWith("upload_file") :
              calls[k].ok => <<experiment_branch, calls[k].arg>> \in staged
        /\ commits = <<>>
        /\ Count("commit") = 1
        /\ \A k \in StoreCalls : \A c \in CallsWith("commit") : k <= c

\* two files uploaded, the commit refused: the run exits with 1 and the
\* two objects and the manifest are still staged
C21_Witness ==
    /\ pc = "exit_673"
    /\ exit_code = 1
    /\ ~single_file
    /\ Count("commit") = 1
    /\ ~CommitObtained
    /\ Cardinality(staged) = 3

\* the backend calls made by the logging methods of the tracker
LoggingOps ==
    { "mlflow.start_run", "mlflow.log_param", "mlflow.log_metric",
      "mlflow.log_artifact" }

\* a backend call of a logging method failed
LoggingFailed == \E k \in 1..Len(calls) : calls[k].op \in LoggingOps /\ ~calls[k].ok

\* C22: a failure of the backend inside a logging method of the tracker
\* does not reach the orchestrator: the only exception after such a failure
\* is that of the torch import, and a run that is back in main has attempted
\* every result file once, has attempted the commit once if a result file
\* was uploaded, and returned True exactly if the commit gave an id.
C22_LoggingFailureNotFatal ==
    /\ (pc \in { "except_exc", "exit_684" } /\ LoggingFailed) => ~torch_ok
    /\ (BackInMain /\ LoggingFailed) =>
          /\ \A i \in 1..Len(result_files) :
                Cardinality(Attempts(ResultPath(i))) = 1
          /\ ResultUploaded => Count("commit") = 1
          /\ success = "True" <=> CommitObtained

\* every backend call of the logging methods failed, and the run
\* committed and exits with 0
C22_Witness ==
    /\ pc = "exit_673"
    /\ exit_code = 0
    /\ CommitObtained
    /\ \A op \in LoggingOps :
          \E k \in 1..Len(calls) : calls[k].op = op /\ ~calls[k].ok
    /\ \A k \in 1..Len(calls) : calls[k].op \in LoggingOps => ~calls[k].ok

\* the calls that reach the tracking backend
BackendOps == LoggingOps \cup { "mlflow.set_experiment", "mlflow.end_run" }

\* the methods of the tracker object
TrackerMethods ==
    { "start_run", "log_params", "log_metrics", "log_artifacts",
      "log_benchmark_results", "end_run" }

\* main holds a tracker object that its constructor left disabled
Disabled == mlflow_logger = "obj" /\ ~enabled

\* C23: a tracker that is disabled stays disabled, and no step taken while
\* it is disabled makes a call to the tracking backend, whatever methods of
\* the tracker the step calls.
C23_DisabledTrackerStaysSilent ==
    [][Disabled =>
          /\ Disabled'
          /\ \A k \in (Len(calls) + 1)..Len(calls') : calls'[k].op \notin BackendOps
          /\ run_state' = run_state
          /\ mlflow_metrics' = mlflow_metrics
          /\ mlflow_params' = mlflow_params]_vars

\* a run with a disabled tracker has called each of its methods, and the
\* backend has seen at most the failed set_experiment of the constructor
C23_Witness ==
    /\ Disabled
    /\ pc = "exit_673"
    /\ \A op \in TrackerMethods : Count(op) >= 1
    /\ \A k \in 1..Len(calls) :
          calls[k].op \in BackendOps =>
              calls[k].op = "mlflow.set_experiment" /\ ~calls[k].ok

\* C24: the summary that reached the tracker is consistent: the count of
\* uploaded files plus the count of failed files is the count of result
\* files, and the success rate lies in [0,1].
C24_SummaryConsistent ==
    <<"upload_success_rate">> \in DOMAIN mlflow_metrics =>
        /\ RatEq(RatAdd(mlflow_metrics[<<"uploaded_files_count">>],
                        mlflow_metrics[<<"failed_files_count">>]),
                 mlflow_metrics[<<"total_files_count">>])
        /\ ~RatLess(mlflow_metrics[<<"upload_success_rate">>], Rat(0, 1))
        /\ ~RatLess(Rat(1, 1), mlflow_metrics[<<"upload_success_rate">>])

\* the place of a call in the order of a batch run: 0 constructor of the
\* tracker, 1 connectivity probe, 2 branch creation, 3 start of the tracker
\* run, 4 per-file uploads and their metrics, 5 manifest, 6 commit,
\* 7 summary, 8 end of the tracker run
PhaseOfOp ==
    "mlflow.set_experiment" :> 0 @@ "list_repositories" :> 1
        @@ "create_branch" :> 2
        @@ "start_run" :> 3 @@ "mlflow.start_run" :> 3
        @@ "log_benchmark_results" :> 4
        @@ "log_artifacts" :> 5 @@ "mlflow.log_artifact" :> 5
        @@ "commit" :> 6
        @@ "end_run" :> 8 @@ "mlflow.end_run" :> 8

Phase(call) ==
    CASE call.op \in { "log_metrics", "mlflow.log_metric" } ->
             IF call.arg = <<"final_metrics">> THEN 7 ELSE 4
      [] call.op \in { "log_params", "mlflow.log_param" } ->
             IF call.arg = <<"system_info">> THEN 3 ELSE 7
      [] call.op = "upload_file" ->
             IF call.arg = MetadataPath(timestamp) THEN 5 ELSE 4
      [] OTHER -> PhaseOfOp[call.op]

\* the position of the first call of a set of positions, one past the end
\* of the history when there is none
First(positions) ==
    IF positions = {} THEN Len(calls) + 1
    ELSE CHOOSE i \in positions : \A j \in positions : i <= j

\* C25: the calls of a batch run come in the order probe, branch creation,
\* run start, per-file uploads, manifest upload, commit, summary, end_run;
\* an upload is made only after a probe that succeeded and never after a
\* commit call.
C25_CallsInPipelineOrder ==
    ~single_file =>
        LET first_probe == First({ i \in 1..Len(calls) :
                          calls[i].op = "list_repositories" /\ calls[i].ok })
            first_commit == First(CallsWith("commit"))
        IN  /\ \A k \in 1..(Len(calls) - 1) :
                  Phase(calls[k]) <= Phase(calls[k + 1])
            /\ \A k \in 1..Len(calls) :
                  calls[k].op = "upload_file" =>
                      first_probe < k /\ k < first_commit

\* a batch run that went through every phase, with two result files
C25_Witness ==
    /\ ~single_file
    /\ pc = "exit_673"
    /\ Len(result_files) = 2
    /\ { Phase(calls[k]) : k \in 1..Len(calls) } = 0..8
    /\ ManifestUploaded
    /\ CommitObtained
    /\ run_state = "ended"

\* two calls of the same store operation with the same argument
Repeated ==
    \E i, j \in StoreCalls :
        i < j /\ calls[i].op = calls[j].op /\ calls[i].arg = calls[j].arg

\* at most one probe, one branch creation, one commit and one start of a
\* tracker run, at most one upload per result file plus one for the manifest
CallBounds ==
    /\ Count("list_repositories") <= 1
    /\ Count("create_branch") <= 1
    /\ Count("upload_file") <= Len(result_files) + 1
    /\ Count("commit") <= 1
    /\ Count("start_run") <= 1
    /\ Count("mlflow.start_run") <= 1
    /\ ~Repeated

\* C26: every invocation terminates, and at no point has it made more than
\* one branch creation, n+1 uploads, one commit or one start_run call, nor
\* repeated a call on the store.
C26_TerminatesWithoutRetry == <>(pc \in Exited) /\ []CallBounds

\* a terminated run of three files that made the most calls it can make
C26_Witness ==
    /\ pc \in Exited
    /\ Len(result_files) = 3
    /\ Count("upload_file") = 4
    /\ Count("create_branch") = 1
    /\ Count("commit") = 1
    /\ Count("start_run") = 1
    /\ FailedPositions # {}

\* the first invocation's create_branch returned True
CreatedHere == \E k \in CallsWith("create_branch") : calls[k].ok

\* the objects the repository holds, staged or committed, as <<branch, path>>
Objects ==
    staged \cup UNION { { <<commits[k].branch, remote_path>> :
                             remote_path \in commits[k].paths } :
                       k \in 1..Len(commits) }

\* C27: with a second invocation of the same bucket, prefix and model name
\* there is one branch for both: at most one of the two create_branch calls
\* returns True, no other branch comes into being, every object and every
\* commit of either invocation is on that branch, and the file both publish
\* under one basename is one object at one remote path.
C27_SameBucketSharesBranch ==
    peer.pc # "off" =>
        /\ branches \subseteq { <<"main">>, experiment_branch }
        /\ ~(CreatedHere /\ peer.created)
        /\ \A object \in Objects : object[1] = experiment_branch
        /\ (peer.uploaded /\ Confirmed(ResultPath(1))) =>
              { object \in Objects : object[2] = ResultPath(1) }
                  = { <<experiment_branch, ResultPath(1)>> }
        /\ peer.commit_id # 0 =>
              commits[peer.commit_id].branch = experiment_branch

\* both invocations uploaded the file and both committed: two commits on
\* the one branch, each holding the same remote path
C27_Witness ==
    /\ peer.pc = "done"
    /\ pc = "exit_673"
    /\ exit_code = 0
    /\ peer.uploaded
    /\ peer.commit_id # 0
    /\ commit_id # 0
    /\ Len(commits) = 2
    /\ \A k \in 1..2 :
          /\ commits[k].branch = experiment_branch
          /\ ResultPath(1) \in commits[k].paths

\* the file with every entry of a record's choices after the first removed
FirstChoiceOnly(file) ==
    [k \in 1..Len(file) |->
        IF file[k].kind = "json" /\ Len(file[k].choices) > 1
        THEN [file[k] EXCEPT !.choices = <<file[k].choices[1]>>]
        ELSE file[k]]

\* the choice with every absent array present and empty
AllArrays(choice) ==
    [keys |-> ArrayKeys,
     wall_time |-> IF "wall_time" \in choice.keys THEN choice.wall_time ELSE <<>>,
     decoding_steps |-> IF "decoding_steps" \in choice.keys
                        THEN choice.decoding_steps ELSE <<>>,
     new_tokens |-> IF "new_tokens" \in choice.keys THEN choice.new_tokens ELSE <<>>,
     accept_lengths |-> IF "accept_lengths" \in choice.keys
                        THEN choice.accept_lengths ELSE <<>>]

\* the file with, in every record, a choices list of one entry that has all
\* four arrays: absent arrays, an absent list and an empty list made empty
\* arrays
Explicit(file) ==
    [k \in 1..Len(file) |->
        IF file[k].kind # "json" THEN file[k]
        ELSE IF file[k].has_choices /\ file[k].choices # <<>>
        THEN Record(<<AllArrays(file[k].choices[1])>>)
        ELSE Record(<<AllArrays(EmptyChoice)>>)]

\* C28: for a record set the aggregator returns metrics, counts every
\* record in total_questions, and returns what it returns for the file
\* with the later choices entries removed and for the file with the absent
\* arrays and choices lists written out as empty arrays.
C28_FirstChoiceOnlySparseTolerant ==
    (Aggregated /\ IsRecordSet(AggFile)) =>
        /\ Present("total_questions")
        /\ metrics[AggKey("total_questions")] = Rat(Len(NonBlank(AggFile)), 1)
        /\ metrics = _parse_benchmark_results(FirstChoiceOnly(AggFile), AggName)
        /\ metrics = _parse_benchmark_results(Explicit(AggFile), AggName)

\* a record with two choices entries next to a record without choices
C28_Witness ==
    /\ Aggregated
    /\ IsRecordSet(AggFile)
    /\ \E k \in 1..Len(AggFile) :
          AggFile[k].kind = "json" /\ Len(AggFile[k].choices) = 2
    /\ \E k \in 1..Len(AggFile) : AggFile[k].kind = "json" /\ ~AggFile[k].has_choices
    /\ metrics[AggKey("total_questions")] = Rat(2, 1)
    /\ metrics[AggKey("total_wall_time")] = Rat(0, 1)

TypeOK ==
    /\ pc \in TryBlock \cup { "except_kbd", "except_exc", "agg", "agg_done", "store" }
             \cup Exited
    /\ mlflow_logger \in { "unbound", "None", "obj" }
    /\ success \in { "unset", "True", "False" }
    /\ exit_code \in { -1, 0, 1, 130 }
    /\ next_file \in 1..(Len(result_files) + 1)
    /\ safe_model_name \in Seq(SafeChars)
    /\ Len(metadata) <= 1
    /\ peer.pc \in { "off", "branch", "upload", "commit", "done" }

====
